---- MODULE Spec2Model ----
(***************************************************************************)
(* State-machine model of narcan_finder_app.py (src/main.py): the          *)
(* encrypted API-key vault, the retrying OpenAI completion client, the     *)
(* quantum analysis, the sqlite log of exchanges and the request handler   *)
(* that the GUI runs on worker threads.                                    *)
(***************************************************************************)
EXTENDS Integers, Sequences, FiniteSets, TLC

\* ------------------------------------------------------------------ bounds
\* Clicks on "Find NARCAN" in one behaviour (each starts a worker thread).
MaxRequests == 2
\* Worker threads alive at the same time.
MaxWorkers == 2
\* Process restarts (the window is closed and the program started again).
MaxRestarts == 1
\* Rows the persistence specification may append (one more than LIMIT 10).
MaxRows == 11
\* Exports the persistence specification may run.
MaxExports == 1

\* ------------------------------------------------------- program constants
KEY_PATH == "~/.cache/narcan_master_key.bin"
ENC_API_PATH == "~/.cache/narcan_api_key.enc"
\* range(3) of the retry loop
MaxAttempts == 3
\* 2 ** attempt
BackoffBase == 2
\* wires=7
Wires == 7
\* LIMIT 10 of the export queries
ExportLimit == 10

\* Python's None among string values (strings are sequences of code points,
\* so None is a sequence no string equals).
None == <<-1>>
\* The outcome of bytes.decode() on malformed input.
DecodeError == <<-2>>

\* ------------------------------------------------------------ pure helpers
RECURSIVE Concat(_)
Concat(ss) == IF ss = <<>> THEN <<>> ELSE Head(ss) \o Concat(Tail(ss))

\* str.encode(): UTF-8 bytes of one code point (BMP only).
Utf8Char(cp) ==
    IF cp < 128 THEN <<cp>>
    ELSE IF cp < 2048 THEN <<192 + (cp \div 64), 128 + (cp % 64)>>
    ELSE <<224 + (cp \div 4096), 128 + ((cp \div 64) % 64), 128 + (cp % 64)>>

\* api_key.encode(): a string is a sequence of code points.
Encode(s) == Concat([i \in 1..Len(s) |-> Utf8Char(s[i])])

\* bytes.decode(): parses by lead byte; DecodeError when malformed.
RECURSIVE Decode(_)
Decode(b) ==
    IF b = <<>> THEN <<>>
    ELSE LET n == IF b[1] < 128 THEN 1
                  ELSE IF b[1] >= 192 /\ b[1] < 224 THEN 2
                  ELSE IF b[1] >= 224 /\ b[1] < 240 THEN 3
                  ELSE 0
         IN IF n = 0 \/ Len(b) < n
               \/ \E i \in 2..n : b[i] < 128 \/ b[i] >= 192
            THEN DecodeError
            ELSE LET cp == IF n = 1 THEN b[1]
                           ELSE IF n = 2 THEN (b[1] - 192) * 64 + (b[2] - 128)
                           ELSE (b[1] - 224) * 4096 + (b[2] - 128) * 64
                                + (b[3] - 128)
                     rest == Decode(SubSeq(b, n + 1, Len(b)))
                 IN IF rest = DecodeError THEN rest
                    ELSE <<cp>> \o rest

\* Whitespace code points str.strip() removes (space, tab, newline).
Whitespace == {32, 9, 10}

\* str.strip()
RECURSIVE LStrip(_)
LStrip(s) ==
    IF s # <<>> /\ Head(s) \in Whitespace THEN LStrip(Tail(s)) ELSE s

RECURSIVE RStrip(_)
RStrip(s) ==
    IF s # <<>> /\ s[Len(s)] \in Whitespace
    THEN RStrip(SubSeq(s, 1, Len(s) - 1)) ELSE s

Strip(s) == RStrip(LStrip(s))

\* Python truthiness of a str-or-None value: None and "" are falsy.
Truthy(v) == v # None /\ v # <<>>

\* ------------------------------------------------------------------- vault
\* File contents are sequences of byte blocks.  A block is the output of one
\* cryptographic primitive (t = "key": AESGCM.generate_key, "nonce":
\* secrets.token_bytes(12), "sealed": ciphertext-plus-tag of AESGCM.encrypt
\* under key k and nonce n, holding the plaintext pt).
Keys == {"K1", "K2"}
Nonces == {"N1", "N2"}
KeyBytes(k) == <<[t |-> "key", k |-> k, n |-> "", pt |-> <<>>]>>
NonceBytes(n) == <<[t |-> "nonce", k |-> "", n |-> n, pt |-> <<>>]>>

\* AESGCM(key): the constructor accepts only a 128/192/256-bit key.
ValidKey(key) == Len(key) = 1 /\ key[1].t = "key"

\* aesgcm.encrypt(nonce, data, None): ciphertext and tag, bound to key and nonce.
AesGcmEncrypt(key, nonce, data) ==
    <<[t |-> "sealed", k |-> key[1].k, n |-> nonce[1].n, pt |-> data]>>

\* aesgcm.decrypt(nonce, ciphertext, None): the plaintext, or an exception
\* when the nonce has no valid length or the tag does not authenticate.
AesGcmDecrypt(key, nonce, ciphertext) ==
    IF ~(Len(nonce) = 1 /\ nonce[1].t = "nonce")
    THEN [exc |-> "ValueError", val |-> <<>>]
    ELSE IF Len(ciphertext) = 1 /\ ciphertext[1].t = "sealed"
            /\ ciphertext[1].k = key[1].k /\ ciphertext[1].n = nonce[1].n
    THEN [exc |-> "", val |-> ciphertext[1].pt]
    ELSE [exc |-> "InvalidTag", val |-> <<>>]

\* os.path.exists(path)
Exists(d, path) == path \in DOMAIN d

\* open(path, "wb"); f.write(content)
WriteFile(d, path, content) ==
    [p \in DOMAIN d \cup {path} |-> IF p = path THEN content ELSE d[p]]

\* Mutant: the key is generated anew on every call.
LoadOrCreateKey_Regenerate(d, fresh) ==
    [key |-> KeyBytes(fresh), disk |-> WriteFile(d, KEY_PATH, KeyBytes(fresh))]

\* load_or_create_key(): `fresh` is what generate_aes_key() would return.
LoadOrCreateKey(d, fresh) ==
    IF Exists(d, KEY_PATH)
    THEN [key |-> d[KEY_PATH], disk |-> d]
    ELSE [key |-> KeyBytes(fresh), disk |-> WriteFile(d, KEY_PATH, KeyBytes(fresh))]

\* encrypt_api_key(api_key), lines 35-38: the bytes line 40 writes.
EncryptedBlob(key, nonce, api_key) ==
    NonceBytes(nonce) \o AesGcmEncrypt(key, NonceBytes(nonce), Encode(api_key))

\* data[:12] and data[12:]: a nonce block is 12 bytes long, and the blocks of
\* the files this program writes are never split by the slice.
NonceSlice(data) == IF data = <<>> THEN <<>> ELSE <<Head(data)>>
CiphertextSlice(data) == IF data = <<>> THEN <<>> ELSE Tail(data)

\* decrypt_api_key(): the returned value or the exception raised, and the disk
\* afterwards (load_or_create_key may create the key file).
DecryptApiKey(d, fresh) ==
    IF ~Exists(d, ENC_API_PATH)
    THEN [exc |-> "", val |-> None, key |-> <<>>, disk |-> d]
    ELSE LET lk == LoadOrCreateKey(d, fresh)
             data == lk.disk[ENC_API_PATH]
             nonce == NonceSlice(data)
             ciphertext == CiphertextSlice(data)
         IN IF ~ValidKey(lk.key)
            THEN [exc |-> "ValueError", val |-> <<>>, key |-> <<>>, disk |-> lk.disk]
            ELSE LET dec == AesGcmDecrypt(lk.key, nonce, ciphertext)
                 IN IF dec.exc # ""
                    THEN [exc |-> dec.exc, val |-> <<>>, key |-> lk.key,
                          disk |-> lk.disk]
                    ELSE IF Decode(dec.val) = DecodeError
                    THEN [exc |-> "UnicodeDecodeError", val |-> <<>>,
                          key |-> lk.key, disk |-> lk.disk]
                    ELSE [exc |-> "", val |-> Decode(dec.val), key |-> lk.key,
                          disk |-> lk.disk]

\* ------------------------------------------------------- quantum analysis
\* 128 * P(qubit = bit) after RY(pi * (0.5 + percent / 100)) on |0>, doubled
\* per qubit so that the product over 7 qubits is 128 * probability:
\* percent 0 and 100 give P(1) = 1/2, percent 50 gives P(1) = 1.
RyWeight(percent, bit) ==
    IF percent = 50 THEN (IF bit = 1 THEN 2 ELSE 0) ELSE 1

\* Bit of wire w (wire 0 is the most significant) in basis index y.
RECURSIVE Pow2(_)
Pow2(e) == IF e = 0 THEN 1 ELSE 2 * Pow2(e - 1)
WireBit(y, w) == (y \div Pow2(Wires - 1 - w)) % 2

\* The chain CNOT(0,1), ..., CNOT(5,6) maps input bits b to outputs
\* y_w = b_0 xor ... xor b_w, so the input bit of wire w is y_w xor y_(w-1).
InputBit(y, w) ==
    IF w = 0 THEN WireBit(y, 0) ELSE (WireBit(y, w) + WireBit(y, w - 1)) % 2

RECURSIVE ProdWeights(_, _, _, _)
ProdWeights(cpu_usage, ram_usage, y, w) ==
    IF w = Wires THEN 1
    ELSE RyWeight(IF w % 2 = 0 THEN cpu_usage ELSE ram_usage, InputBit(y, w))
         * ProdWeights(cpu_usage, ram_usage, y, w + 1)

\* circuit(cpu_param, ram_param): qml.probs over 7 wires, each entry times 128.
Circuit(cpu_usage, ram_usage) ==
    [i \in 1..Pow2(Wires) |-> ProdWeights(cpu_usage, ram_usage, i - 1, 0)]

\* Mutant: a failure hands on a zero vector of length 4.
RunQuantumAnalysis_ZeroVector(cpu_usage, ram_usage, fails) ==
    IF fails THEN <<0, 0, 0, 0>> ELSE Circuit(cpu_usage, ram_usage)

\* run_quantum_analysis(cpu, ram): `fails` is whether anything inside the try
\* block raises (device construction, circuit execution).
RunQuantumAnalysis(cpu_usage, ram_usage, fails) ==
    IF fails THEN <<>> ELSE Circuit(cpu_usage, ram_usage)

\* ---------------------------------------------------------------- database
\* AUTOINCREMENT: one more than the largest id ever used (rows are never
\* deleted, so the largest id is that of the last row).
NextId(rows) == IF rows = <<>> THEN 1 ELSE rows[Len(rows)].id + 1

\* Mutant: the insert reuses the id of the last row and replaces that row.
SaveToDb_LostUpdate(rows, prompt, result) ==
    IF rows = <<>>
    THEN <<[id |-> 1, user_input |-> prompt, ai_response |-> result]>>
    ELSE [rows EXCEPT ![Len(rows)] = [id |-> rows[Len(rows)].id,
                                      user_input |-> prompt,
                                      ai_response |-> result]]

\* save_to_db(prompt, result): one INSERT, committed.
SaveToDb(rows, prompt, result) ==
    Append(rows, [id |-> NextId(rows), user_input |-> prompt,
                  ai_response |-> result])

\* Position in `rows` of the row with the k-th largest id.
RECURSIVE MaxIdBelow(_, _)
MaxIdBelow(rows, bound) ==
    IF rows = <<>> THEN 0
    ELSE LET m == MaxIdBelow(Tail(rows), bound)
             h == Head(rows).id
         IN IF h < bound /\ h > m THEN h ELSE m

RowWithId(rows, id) == CHOOSE r \in {rows[i] : i \in 1..Len(rows)} : r.id = id

\* SELECT * FROM narcan_requests ORDER BY id DESC LIMIT n
RECURSIVE SelectRecent(_, _, _)
SelectRecent(rows, n, bound) ==
    LET m == MaxIdBelow(rows, bound)
    IN IF n = 0 \/ m = 0 THEN <<>>
       ELSE <<RowWithId(rows, m)>> \o SelectRecent(rows, n - 1, m)

\* Mutant: ORDER BY id ASC, the oldest rows first.
RecentRows_OldestFirst(rows) ==
    SubSeq(rows, 1, IF Len(rows) < ExportLimit THEN Len(rows) ELSE ExportLimit)

\* The query of export_to_txt / export_to_csv / export_to_json.
RecentRows(rows) ==
    SelectRecent(rows, ExportLimit, NextId(rows))

\* ------------------------------------------------------------------ inputs
\* API keys the user may type into the "Set API Key" dialog ("sk", "e-acute
\* euro"), besides cancelling (None) and entering nothing ("").
Creds == {<<115, 107>>, <<233, 8364>>}
\* Texts the user may type into the location and symptom entries (" 7", "o").
LocationInputs == {<<32, 55>>}
SymptomInputs == {<<111>>}
\* (cpu_percent, virtual_memory().percent) samples psutil may report.
Telemetry == {<<50, 100>>, <<100, 50>>}
\* Contents of the text field of a successful response (" ", " Hi").
Contents == {<<32>>, <<32, 72, 105>>}
\* What one POST can lead to: the request raising (network error, timeout
\* after 15 s), raise_for_status() raising, the JSON lacking the field, or a
\* text.
Outcomes ==
    {[kind |-> k, content |-> <<>>] :
         k \in {"network", "timeout", "status", "nofield"}}
    \cup {[kind |-> "ok", content |-> c] : c \in Contents}

Threads == 1..MaxWorkers

\* ------------------------------------------------------------------- state
VARIABLES
    disk,            \* path -> file content, for the files that exist
    db,              \* rows of narcan_requests, in insertion order
    location_entry,  \* text of self.location_entry
    symptom_entry,   \* text of self.symptom_entry
    result_text,     \* notices inserted into self.result_text
    main,            \* the GUI thread inside encrypt_api_key
    thr,             \* thread -> locals and position of _handle_request
    aesgcm,          \* key of the AESGCM object built last
    stored,          \* history: API key of the last completed encrypt_api_key
    restarts,        \* process restarts so far
    requests,        \* worker threads started so far
    exported         \* rows fetched by the last export

vars == <<disk, db, location_entry, symptom_entry, result_text, main, thr,
          aesgcm, stored, restarts, requests, exported>>

IdleThread ==
    [pc |-> "idle", run |-> 0, location |-> <<>>, symptoms |-> <<>>,
     vault |-> "", api_key |-> None, cpu |-> 0, ram |-> 0,
     sim_failed |-> FALSE, quantum |-> <<>>, attempt |-> 0,
     result |-> None, log |-> <<>>]

MainIdle == [pc |-> "idle", api_key |-> None, blob |-> <<>>]

Init ==
    /\ disk = <<>>
    /\ db = <<>>
    /\ location_entry = <<>>
    /\ symptom_entry = <<>>
    /\ result_text = <<>>
    /\ main = MainIdle
    /\ thr = [t \in Threads |-> IdleThread]
    /\ aesgcm = <<>>
    /\ stored = [val |-> None, run |-> 0]
    /\ restarts = 0
    /\ requests = 0
    /\ exported = <<>>

\* A notice in the result box.
Notice(kind, text) == [kind |-> kind, text |-> text]

\* The f-string prompt of _handle_request: its variable parts.
MakePrompt(location, symptoms, cpu, ram, quantum) ==
    [location |-> location, symptoms |-> symptoms, cpu |-> cpu, ram |-> ram,
     quantum |-> quantum]

PromptOf(l) == MakePrompt(l.location, l.symptoms, l.cpu, l.ram, l.quantum)

\* get_cpu_ram_usage(): psutil's sample, or (0, 0) when psutil raises.
GetCpuRamUsage(sample, raises) == IF raises THEN <<0, 0>> ELSE sample

\* The bare `except:` of the retry loop catches every failure kind.
Caught(kind) == TRUE

\* asyncio.sleep(2 ** attempt)
RECURSIVE Pow(_, _)
Pow(b, e) == IF e = 0 THEN 1 ELSE b * Pow(b, e - 1)
\* Mutant: the same delay after every failure.
Backoff_Constant(attempt) == 1
Backoff(attempt) == Pow(BackoffBase, attempt)

\* Mutant: one iteration too many.
LoopContinues_OffByOne(attempt) == attempt <= MaxAttempts

\* for attempt in range(3): whether the loop runs another iteration.
LoopContinues(attempt) == attempt < MaxAttempts

\* `if result:` of _handle_request.
ResultAccepted(result) == Truthy(result)

\* ----------------------------------------------------------------- actions
\* The user types into the entries (GUI thread, not inside a callback).
EditEntries(l, s) ==
    /\ main.pc = "idle"
    /\ location_entry' = l
    /\ symptom_entry' = s
    /\ UNCHANGED <<disk, db, result_text, main, thr, aesgcm, stored, restarts,
                   requests,
                   exported>>

\* _set_api_key up to and including open(ENC_API_PATH, "wb") of
\* encrypt_api_key: the key is loaded or created, the blob computed, and the
\* file truncated.  A cancelled or empty dialog changes nothing.
SetApiKeyOpen(api_key, fresh, nonce) ==
    /\ main.pc = "idle"
    /\ IF ~Truthy(api_key)
       THEN UNCHANGED <<disk, main, aesgcm, stored>>
       ELSE LET lk == LoadOrCreateKey(disk, fresh)
            IN IF ~ValidKey(lk.key)
               THEN /\ disk' = lk.disk
                    /\ UNCHANGED <<main, aesgcm, stored>>
               ELSE /\ disk' = WriteFile(lk.disk, ENC_API_PATH, <<>>)
                    /\ aesgcm' = lk.key
                    /\ main' = [pc |-> "writing", api_key |-> api_key,
                                blob |-> EncryptedBlob(lk.key, nonce, api_key)]
                    /\ stored' = [val |-> None, run |-> restarts]
    /\ UNCHANGED <<db, location_entry, symptom_entry, result_text, thr,
                   restarts, requests, exported>>

\* f.write(nonce + encrypted) and the close of the file.
SetApiKeyWrite ==
    /\ main.pc = "writing"
    /\ disk' = WriteFile(disk, ENC_API_PATH, main.blob)
    /\ stored' = [val |-> main.api_key, run |-> restarts]
    /\ main' = MainIdle
    /\ UNCHANGED <<db, location_entry, symptom_entry, result_text, thr, aesgcm,
                   restarts, requests, exported>>

\* _start_thread: a new daemon thread for _handle_request.
StartThread(t) ==
    /\ main.pc = "idle"
    /\ thr[t].pc = "idle"
    /\ \A u \in Threads : u < t => thr[u].pc # "idle"
    /\ requests < MaxRequests
    /\ requests' = requests + 1
    /\ thr' = [thr EXCEPT ![t].pc = "begin", ![t].run = restarts]
    /\ UNCHANGED <<disk, db, location_entry, symptom_entry, result_text, main,
                   aesgcm, stored, restarts, exported>>

\* _handle_request, lines 234-236: clear the box, read the entries.
HandleBegin(t) ==
    /\ thr[t].pc = "begin"
    /\ result_text' = <<>>
    /\ thr' = [thr EXCEPT ![t].pc = "load",
                          ![t].location = Strip(location_entry),
                          ![t].symptoms = Strip(symptom_entry)]
    /\ UNCHANGED <<disk, db, location_entry, symptom_entry, main, aesgcm,
                   stored, restarts, requests, exported>>

\* _handle_request, lines 237-241: decrypt_api_key() and its except branch.
HandleLoad(t, fresh) ==
    /\ thr[t].pc = "load"
    /\ LET r == DecryptApiKey(disk, fresh)
       IN /\ disk' = r.disk
          /\ aesgcm' = IF r.key # <<>> THEN r.key ELSE aesgcm
          /\ IF r.exc # ""
             THEN /\ result_text' =
                       Append(result_text, Notice("api_key_error", <<>>))
                  /\ thr' = [thr EXCEPT ![t].pc = "done", ![t].vault = r.exc]
             ELSE /\ result_text' = result_text
                  /\ thr' = [thr EXCEPT ![t].pc = "prepare",
                                        ![t].vault = "returned",
                                        ![t].api_key = r.val]
    /\ UNCHANGED <<db, location_entry, symptom_entry, main, stored, restarts,
                   requests,
                   exported>>

\* _handle_request, lines 243-258: telemetry, quantum analysis, prompt, and
\* the "Running quantum scan" notice.
HandlePrepare(t, sample, psutil_raises, sim_raises) ==
    /\ thr[t].pc = "prepare"
    /\ LET usage == GetCpuRamUsage(sample, psutil_raises)
       IN /\ thr' = [thr EXCEPT
                 ![t].pc = "post",
                 ![t].cpu = usage[1],
                 ![t].ram = usage[2],
                 ![t].sim_failed = sim_raises,
                 ![t].quantum = RunQuantumAnalysis(usage[1], usage[2], sim_raises)]
          /\ result_text' = Append(result_text, Notice("running", <<>>))
    /\ UNCHANGED <<disk, db, location_entry, symptom_entry, main, aesgcm,
                   stored, restarts, requests, exported>>

\* Events of run_openai_completion, kept in the thread's log: the POST of
\* attempt n with the text it got (ok) or its failure, and a sleep of n seconds.
Attempt(n, ok, text) == [ev |-> "attempt", n |-> n, ok |-> ok, text |-> text]
Slept(n) == [ev |-> "sleep", n |-> n, ok |-> FALSE, text |-> <<>>]

\* run_openai_completion, lines 68-75: one POST and what comes back.
Post(t, o) ==
    /\ thr[t].pc = "post"
    /\ IF o.kind = "ok"
       THEN thr' = [thr EXCEPT
                ![t].pc = "returned",
                ![t].result = Strip(o.content),
                ![t].log = Append(@, Attempt(thr[t].attempt, TRUE, o.content))]
       ELSE IF Caught(o.kind)
       THEN thr' = [thr EXCEPT
                ![t].pc = "sleep",
                ![t].log = Append(@, Attempt(thr[t].attempt, FALSE, <<>>))]
       ELSE thr' = [thr EXCEPT
                ![t].pc = "crashed",
                ![t].log = Append(@, Attempt(thr[t].attempt, FALSE, <<>>))]
    /\ UNCHANGED <<disk, db, location_entry, symptom_entry, result_text, main,
                   aesgcm, stored, restarts, requests, exported>>

\* run_openai_completion, lines 76-77 and 67: the backoff sleep, then the next
\* iteration or `return None`.
Sleep(t) ==
    /\ thr[t].pc = "sleep"
    /\ LET next == thr[t].attempt + 1
       IN thr' = [thr EXCEPT
              ![t].log = Append(@, Slept(Backoff(thr[t].attempt))),
              ![t].attempt = next,
              ![t].pc = IF LoopContinues(next) THEN "post" ELSE "returned",
              ![t].result = None]
    /\ UNCHANGED <<disk, db, location_entry, symptom_entry, result_text, main,
                   aesgcm, stored, restarts, requests, exported>>

\* _handle_request, lines 260-261 and 263-264: show the result or the failure.
Display(t) ==
    /\ thr[t].pc = "returned"
    /\ IF ResultAccepted(thr[t].result)
       THEN /\ result_text' = Append(result_text, Notice("result", thr[t].result))
            /\ thr' = [thr EXCEPT ![t].pc = "save"]
       ELSE /\ result_text' = Append(result_text, Notice("openai_failed", <<>>))
            /\ thr' = [thr EXCEPT ![t].pc = "done"]
    /\ UNCHANGED <<disk, db, location_entry, symptom_entry, main, aesgcm,
                   stored, restarts, requests, exported>>

\* _handle_request, line 262: save_to_db(prompt, result).
Save(t) ==
    /\ thr[t].pc = "save"
    /\ db' = SaveToDb(db, PromptOf(thr[t]), thr[t].result)
    /\ thr' = [thr EXCEPT ![t].pc = "done"]
    /\ UNCHANGED <<disk, location_entry, symptom_entry, result_text, main,
                   aesgcm, stored, restarts, requests, exported>>

\* _handle_request has returned (or died of an uncaught exception): the
\* thread ends and its locals are gone.
Exit(t) ==
    /\ thr[t].pc \in {"done", "crashed"}
    /\ thr' = [thr EXCEPT ![t] = IdleThread]
    /\ UNCHANGED <<disk, db, location_entry, symptom_entry, result_text, main,
                   aesgcm, stored, restarts, requests, exported>>

\* The process ends (its daemon threads with it) and the program is started
\* again: __init__ builds an empty window; the files and the database stay.
Restart ==
    /\ restarts < MaxRestarts
    /\ restarts' = restarts + 1
    /\ thr' = [t \in Threads |-> IdleThread]
    /\ main' = MainIdle
    /\ location_entry' = <<>>
    /\ symptom_entry' = <<>>
    /\ result_text' = <<>>
    /\ aesgcm' = <<>>
    /\ UNCHANGED <<disk, db, stored, requests, exported>>

\* _run_export(export_func): the export thread fetches the rows (the file it
\* writes holds exactly these) and reports in the result box.
Export ==
    /\ Len(result_text) < MaxExports
    /\ exported' = RecentRows(db)
    /\ result_text' = Append(result_text, Notice("exported", <<>>))
    /\ UNCHANGED <<disk, db, location_entry, symptom_entry, main, thr, aesgcm,
                   stored, restarts, requests>>

\* save_to_db(prompt, result), called on its own.
StoreAppend(prompt, result) ==
    /\ Len(db) < MaxRows
    /\ db' = SaveToDb(db, prompt, result)
    /\ UNCHANGED <<disk, location_entry, symptom_entry, result_text, main, thr,
                   aesgcm, stored, restarts, requests, exported>>

\* ---------------------------------------------------------- specifications
\* No worker thread is running.
NoWorker == \A u \in Threads : thr[u].pc = "idle"

\* The request pipeline with every input, one request at a time (the user
\* waits for the answer before clicking again); the API key may be set while
\* a request runs.
Next ==
    \/ \E l \in LocationInputs, s \in SymptomInputs : EditEntries(l, s)
    \/ \E k \in {<<115, 107>>, None} : SetApiKeyOpen(k, "K1", "N1")
    \/ SetApiKeyWrite
    \/ \E t \in Threads : NoWorker /\ StartThread(t)
    \/ \E t \in Threads : HandleBegin(t)
    \/ \E t \in Threads : HandleLoad(t, "K1")
    \/ \E t \in Threads, sample \in Telemetry, pr \in BOOLEAN, sr \in BOOLEAN :
           HandlePrepare(t, sample, pr, sr)
    \/ \E t \in Threads, o \in Outcomes : Post(t, o)
    \/ \E t \in Threads : Sleep(t)
    \/ \E t \in Threads : Display(t)
    \/ \E t \in Threads : Save(t)
    \/ \E t \in Threads : Exit(t)

Spec == Init /\ [][Next]_vars

\* The vault: keys, nonces and API keys vary, the process restarts, and
\* requests (one at a time, against an endpoint that answers at once) read
\* the key back.
OkOutcomes == {o \in Outcomes : o.kind = "ok"}

NextVault ==
    \/ \E k \in Creds \cup {None, <<>>}, fresh \in Keys, n \in Nonces :
           SetApiKeyOpen(k, fresh, n)
    \/ SetApiKeyWrite
    \/ \E t \in Threads : NoWorker /\ StartThread(t)
    \/ \E t \in Threads : HandleBegin(t)
    \/ \E t \in Threads, fresh \in Keys : HandleLoad(t, fresh)
    \/ \E t \in Threads, sample \in Telemetry :
           HandlePrepare(t, sample, FALSE, FALSE)
    \/ \E t \in Threads : Post(t, [kind |-> "ok", content |-> <<32, 72, 105>>])
    \/ \E t \in Threads : Display(t)
    \/ \E t \in Threads : Save(t)
    \/ \E t \in Threads : Exit(t)
    \/ Restart

SpecVault == Init /\ [][NextVault]_vars

\* Concurrent requests: the program starts with an API key stored by an
\* earlier run, and the endpoint answers every request at the first attempt.
InitKeySet ==
    /\ disk = WriteFile(WriteFile(<<>>, KEY_PATH, KeyBytes("K1")), ENC_API_PATH,
                        EncryptedBlob(KeyBytes("K1"), "N1", <<115, 107>>))
    /\ db = <<>>
    /\ location_entry = <<>>
    /\ symptom_entry = <<>>
    /\ result_text = <<>>
    /\ main = MainIdle
    /\ thr = [t \in Threads |-> IdleThread]
    /\ aesgcm = <<>>
    /\ stored = [val |-> <<115, 107>>, run |-> 0]
    /\ restarts = 0
    /\ requests = 0
    /\ exported = <<>>

NextConcurrent ==
    \/ \E l \in LocationInputs, s \in SymptomInputs : EditEntries(l, s)
    \/ \E t \in Threads : StartThread(t)
    \/ \E t \in Threads : HandleBegin(t)
    \/ \E t \in Threads : HandleLoad(t, "K1")
    \/ \E t \in Threads : HandlePrepare(t, <<50, 100>>, FALSE, FALSE)
    \/ \E t \in Threads, o \in OkOutcomes : Post(t, o)
    \/ \E t \in Threads : Display(t)
    \/ \E t \in Threads : Save(t)
    \/ \E t \in Threads : Exit(t)

SpecConcurrent == InitKeySet /\ [][NextConcurrent]_vars

\* The persistence store on its own: appends and exports.
StorePrompt == MakePrompt(<<55>>, <<>>, 0, 0, <<>>)
StoreResults == {<<72, 105>>, <<79>>}

NextStore ==
    \/ \E r \in StoreResults : StoreAppend(StorePrompt, r)
    \/ Export

SpecStore == Init /\ [][NextStore]_vars

\* ------------------------------------------------------------------ claims
AttemptsOf(log) == Cardinality({i \in 1..Len(log) : log[i].ev = "attempt"})
NoSuccess(log) == \A i \in 1..Len(log) : ~log[i].ok
Succeeded(log) == \E i \in 1..Len(log) : log[i].ok
\* The thread has run lines 243-258 (telemetry, quantum analysis, prompt).
Prepared(t) ==
    \/ thr[t].pc \in {"post", "sleep", "returned", "save", "crashed"}
    \/ thr[t].pc = "done" /\ thr[t].vault = "returned"

\* C1: against an endpoint whose every attempt fails (whatever the kind of
\* failure), run_openai_completion makes exactly 3 attempts, never a 4th, and
\* returns None; it does not raise.
C1_ExhaustedAfterThreeAttempts ==
    \A t \in Threads :
        /\ AttemptsOf(thr[t].log) <= 3
        /\ thr[t].pc # "crashed"
        /\ (thr[t].pc = "returned" /\ NoSuccess(thr[t].log))
             => (AttemptsOf(thr[t].log) = 3 /\ thr[t].result = None)

C1_Witness ==
    \E t \in Threads :
        /\ thr[t].pc = "returned"
        /\ NoSuccess(thr[t].log)
        /\ AttemptsOf(thr[t].log) = 3
        /\ thr[t].result = None

\* The outcomes of the attempts in the log, in order.
AttemptOutcomes(log) ==
    LET RECURSIVE Oks(_)
        Oks(l) == IF l = <<>> THEN <<>>
                  ELSE IF Head(l).ev = "attempt" THEN <<Head(l).ok>> \o Oks(Tail(l))
                  ELSE Oks(Tail(l))
    IN Oks(log)

\* C2: when the first two attempts fail and the third succeeds,
\* run_openai_completion returns the (stripped) text of the third response
\* after exactly 3 attempts, having slept once after each failed attempt and
\* before the next one, 2^0 = 1 and then 2^1 = 2 seconds, and not after the
\* success.
C2_FailTwiceThenSucceed ==
    \A t \in Threads :
        (thr[t].pc = "returned" /\ AttemptOutcomes(thr[t].log) = <<FALSE, FALSE, TRUE>>)
          => /\ Len(thr[t].log) = 5
             /\ thr[t].log[1] = Attempt(0, FALSE, <<>>)
             /\ thr[t].log[2] = Slept(1)
             /\ thr[t].log[3] = Attempt(1, FALSE, <<>>)
             /\ thr[t].log[4] = Slept(2)
             /\ thr[t].log[5].ev = "attempt" /\ thr[t].log[5].ok
             /\ thr[t].log[4].n > thr[t].log[2].n
             /\ thr[t].result = Strip(thr[t].log[5].text)

C2_Witness ==
    \E t \in Threads :
        /\ thr[t].pc = "returned"
        /\ AttemptOutcomes(thr[t].log) = <<FALSE, FALSE, TRUE>>
        /\ thr[t].result = <<72, 105>>

\* C3: a request whose read of the vault yields no credential issues no
\* completion attempt: every attempt is made holding a decrypted API key.
C3_NoAttemptWithoutCredential ==
    \A t \in Threads : AttemptsOf(thr[t].log) > 0 => thr[t].api_key # None

\* C4: decrypt_api_key ends in an error both when the encrypted file is
\* missing and when decryption fails, so it never returns without a
\* credential, and the request then ends with a notice of that error.
C4_MissingFileIsAnError ==
    \A t \in Threads : thr[t].vault = "returned" => thr[t].api_key # None

\* C5: a decrypt_api_key that runs after encrypt_api_key(s) has completed, and
\* before the next encrypt_api_key begins, returns exactly s, whatever
\* restarts and other reads lie between.
C5_RoundTrip ==
    [][\A t \in Threads :
          (thr[t].pc = "load" /\ thr'[t].pc # "load" /\ restarts' = restarts
           /\ stored.val # None)
            => (thr'[t].pc = "prepare" /\ thr'[t].api_key = stored.val)]_vars

C5_Witness ==
    \E t \in Threads :
        /\ thr[t].pc = "prepare"
        /\ thr[t].run > stored.run
        /\ stored.val = <<233, 8364>>
        /\ thr[t].api_key = stored.val
        /\ requests > 1

\* C6: the key handed to AESGCM is not the content of any file on disk.
C6_KeyNotPersisted ==
    aesgcm # <<>> => \A p \in DOMAIN disk : disk[p] # aesgcm

Ids(rows) == {rows[i].id : i \in 1..Len(rows)}

\* C8: ids strictly increase with insertion; an append leaves the existing
\* rows as they are; the export query returns at most 10 rows, newest first,
\* and they are the rows with the highest ids; its first row right after an
\* append is the row just inserted.
C8_StoreOrdering ==
    /\ [](/\ \A i \in 1..Len(db) - 1 : db[i].id < db[i + 1].id
          /\ db # <<>> => Head(RecentRows(db)) = db[Len(db)])
    /\ [][/\ Len(db') >= Len(db)
          /\ SubSeq(db', 1, Len(db)) = db
          /\ exported' # exported =>
               /\ Len(exported') <= 10
               /\ \A i \in 1..Len(exported') - 1 :
                      exported'[i].id > exported'[i + 1].id
               /\ \A i \in 1..Len(exported') : \E j \in 1..Len(db) :
                      exported'[i] = db[j]
               /\ \A j \in 1..Len(db) :
                      (\A i \in 1..Len(exported') : exported'[i] # db[j])
                        => (Len(exported') = 10
                            /\ \A i \in 1..Len(exported') :
                                   exported'[i].id > db[j].id)]_vars

C8_Witness ==
    /\ Len(db) = 11
    /\ Len(exported) = 10
    /\ exported[1] = db[11]
    /\ exported[10] = db[2]

\* Threads that have finished a request whose result was shown and saved.
DoneSaved == {t \in Threads : thr[t].pc = "done" /\ ResultAccepted(thr[t].result)}

\* C9: whatever the interleaving, every request that got a response has its
\* own row (its prompt with its response), distinct requests have distinct
\* rows, ids are distinct, and there are no more rows than requests.
C9_ConcurrentAppends ==
    /\ Cardinality(Ids(db)) = Len(db)
    /\ Len(db) <= requests
    /\ \E f \in [DoneSaved -> 1..Len(db)] :
           /\ \A t, u \in DoneSaved : t # u => f[t] # f[u]
           /\ \A t \in DoneSaved :
                  /\ db[f[t]].user_input = PromptOf(thr[t])
                  /\ db[f[t]].ai_response = thr[t].result

C9_Witness ==
    /\ Cardinality(DoneSaved) = 2
    /\ Len(db) = 2
    /\ \E t, u \in DoneSaved : PromptOf(thr[t]) # PromptOf(thr[u])

\* C10: a request that holds an API key and one of whose attempts succeeded
\* (whatever the text, empty or blank included) has appended its row, the
\* prompt with the response, by the time it is done.
C10_SuccessAppendsRow ==
    \A t \in Threads :
        (thr[t].pc = "done" /\ thr[t].api_key # None /\ Succeeded(thr[t].log))
          => \E i \in 1..Len(db) : /\ db[i].user_input = PromptOf(thr[t])
                                   /\ db[i].ai_response = thr[t].result

====
